---- MODULE Spec2Model ----
(***************************************************************************)
(* The in-process cache of backend/apis/enhanced_music_api.py: the global  *)
(* CACHE dictionary, CACHE_LOCK, background_data_refresh and the request   *)
(* handlers that read the cache and trigger refreshes.                     *)
(*                                                                         *)
(* Threads.  Thread 0 is the process's main thread: startup_event calls    *)
(* background_data_refresh() on it before any request is served.  Threads  *)
(* 1..MaxThreads are the threads started by the handlers                   *)
(* (threading.Thread(...).start(), and the thread pool that runs the       *)
(* BackgroundTasks of POST /refresh).  A thread runs one call of           *)
(* background_data_refresh and is never reused.  The request handlers are  *)
(* coroutines of one event loop: one handler runs at a time and gives the  *)
(* loop away only at `await asyncio.sleep`; the refresh threads interleave *)
(* with the running handler between any two of its cache accesses.         *)
(*                                                                         *)
(* Optional values (Python's None) are sequences of length at most one:    *)
(* None is << >> and a present value v is <<v>>.                           *)
(*                                                                         *)
(* Two methods of the connectors are followed step by step on their own:   *)
(* SpotifyMusicConnector.get_trending_music_via_search, which the refresh  *)
(* calls for its dataset (SpecSearch), and                                 *)
(* SecureSpotifyConnector._make_request_with_retry (SpecRetry).  SpecWait  *)
(* is the API process with one /trending reader in its wait loop and a     *)
(* second client.                                                          *)
(*                                                                         *)
(* Four more parts of the repository have a specification each:            *)
(* SecureSpotifyConnector.get_featured_playlists with the connector's      *)
(* result cache (SpecFeatured), SecureSpotifyConnector.get_playlist_tracks *)
(* (SpecPlaylist), the handlers of the uncached API of music_api.py        *)
(* (SpecUncached) and helpers.deduplicate_tracks (SpecDedup).              *)
(***************************************************************************)
EXTENDS Integers, Sequences, FiniteSets, TLC

\* ---------------------------------------------------------------- bounds
MaxThreads == 2
MaxRequests == 1
MaxTime == 306

\* ------------------------------------------------------ program constants
CACHE_TIMEOUT == 300
WAIT_POLLS == 50

None == << >>
Some(v) == <<v>>
IsNone(o) == o = << >>
Val(o) == o[1]

Threads == 0..MaxThreads
Workers == 1..MaxThreads
Requests == 1..MaxRequests
NoThread == -1

\* The seconds the clock may jump between two steps, and the seconds a fetch
\* that reaches the network takes: its round trips take time, so a datetime.now()
\* after the fetch is later than one before it.
TickSteps == {300, 301}
FetchSteps == {1}

\* What get_comprehensive_music_data can hand back before fetched_at is
\* stamped: rows with distinct track_id, highest popularity first.  The empty
\* sequence is the empty DataFrame.
Upstream ==
  { << [track_id |-> "t1", track_name |-> "n1", artist |-> "a1", popularity |-> 90],
       [track_id |-> "t2", track_name |-> "n2", artist |-> "a1", popularity |-> 10] >>,
    << >> }

Limits == {1, 20}

Min(a, b) == IF a <= b THEN a ELSE b

\* 'fetched_at': datetime.now().isoformat() on every row of a fetch
Stamped(rows, t) ==
  [i \in DOMAIN rows |->
     [track_id |-> rows[i].track_id, track_name |-> rows[i].track_name,
      artist |-> rows[i].artist, popularity |-> rows[i].popularity,
      fetched_at |-> t]]

RECURSIVE SumPopularity(_)
SumPopularity(md) ==
  IF md = << >> THEN 0 ELSE Head(md).popularity + SumPopularity(Tail(md))

ArtistCount(md, a) == Cardinality({i \in DOMAIN md : md[i].artist = a})

\* music_data['popularity'].idxmax(): the first row holding the maximum
IdxMax(md) ==
  CHOOSE i \in DOMAIN md :
    /\ \A j \in DOMAIN md : md[j].popularity <= md[i].popularity
    /\ \A j \in DOMAIN md : j < i => md[j].popularity < md[i].popularity

\* value_counts().index[0]: an artist with the most rows
TopArtist(md) ==
  CHOOSE a \in {md[i].artist : i \in DOMAIN md} :
    \A b \in {md[i].artist : i \in DOMAIN md} : ArtistCount(md, b) <= ArtistCount(md, a)

\* The analytics dictionary of a non-empty dataset, computed at time t.
\* avg_popularity is the mean, kept as the exact fraction sum/count.
ComputeAnalytics(md, t) ==
  [total_tracks |-> Len(md),
   unique_artists |-> Cardinality({md[i].artist : i \in DOMAIN md}),
   avg_popularity |-> <<SumPopularity(md), Len(md)>>,
   top_track |-> md[IdxMax(md)].track_name,
   top_artist |-> TopArtist(md),
   timestamp |-> t]

VARIABLES
  CACHE,    \* the global dictionary: music_data, analytics, last_updated, is_updating
  lock,     \* CACHE_LOCK: the thread holding it, or NoThread
  now,      \* what datetime.now() returns, in seconds
  th,       \* per thread: its place in background_data_refresh and its locals
  req,      \* per request: its handler, its place in it and its locals
  running,  \* the request whose handler the event loop is running, or 0
  search,   \* a call of SpotifyMusicConnector.get_trending_music_via_search
  retry,    \* a call of SecureSpotifyConnector._make_request_with_retry
  featured, \* the result cache of a SecureSpotifyConnector and its last call
  playlist, \* a call of SecureSpotifyConnector.get_playlist_tracks
  uncached, \* a request of the uncached API (music_api.py)
  dedup     \* a call of helpers.deduplicate_tracks

\* The state of the API process, and the state of the calls of the connectors
\* that are followed step by step on their own.
api == <<CACHE, lock, now, th, req, running>>
connectors == <<search, retry, featured, playlist, uncached, dedup>>

vars == <<CACHE, lock, now, th, req, running, connectors>>

\* No call of get_trending_music_via_search is being followed.
NoSearch == [pc |-> "none", results |-> << >>, term |-> 0, trending_tracks |-> << >>,
             df |-> << >>, critical |-> FALSE]

\* No call of _make_request_with_retry is being followed.
NoRetry == [pc |-> "none", attempt |-> 0, calls |-> << >>, slept_ms |-> 0,
            result |-> << >>, error |-> "", authenticated |-> FALSE]

\* The arguments of the calls of get_featured_playlists, and line 210: the
\* key f"featured_playlists_{limit}_{country}" of an integer limit and a
\* country, which is a different string for every different pair.
FeaturedLimits == {20, 50}
Countries == {"US"}
cache_key(limit, country) == <<limit, country>>
FeaturedKeys == {cache_key(l, c) : l \in FeaturedLimits, c \in Countries}

\* No call of get_featured_playlists has been made.
NoCall == [key |-> <<0, "">>, requested |-> FALSE, returned |-> << >>]

\* lines 82, 88: the connector before its construction has ended: the result
\* cache is empty.
NoFeatured == [pc |-> "none", cache |-> [k \in FeaturedKeys |-> None], clock |-> 0,
               authenticated |-> FALSE, call |-> NoCall]

\* No call of get_playlist_tracks is being followed.
NoPlaylist == [pc |-> "none", len |-> 0, bad |-> {}, kind |-> "ok", limit |-> 0,
               authenticated |-> FALSE, all_tracks |-> << >>, offset |-> 0,
               batch_limit |-> 0, tracks |-> << >>, requests |-> << >>,
               failed |-> FALSE, returned |-> << >>]

\* No exception, and no response.
NoException == [raised |-> FALSE, http |-> FALSE, status_code |-> 0, detail |-> ""]
NoReply == [status_code |-> 0, detail |-> "", total |-> 0]

\* No request of the uncached API is being followed.
NoUncached == [pc |-> "none", path |-> "", limit |-> 0, sp |-> FALSE,
               music_data |-> << >>, converts |-> FALSE, str_of_fields |-> FALSE,
               e |-> NoException, response |-> NoReply]

\* No call of deduplicate_tracks is being followed.
NoDedup == [pc |-> "none", tracks_df |-> << >>, deduplicated |-> << >>]

\* The entry is still valid at the age of the timeout.
is_cache_valid_le(c, t) ==
  IF c.last_updated = << >> THEN FALSE
  ELSE t - c.last_updated[1] <= CACHE_TIMEOUT

\* is_cache_valid(), reading the cache c at time t
is_cache_valid(c, t) ==
  IF IsNone(c.last_updated) THEN FALSE
  ELSE t - Val(c.last_updated) < CACHE_TIMEOUT

\* The three fields the completion step replaces.
Entry(c) == <<c.music_data, c.analytics, c.last_updated>>

NoEntry == <<None, None, None>>

\* A thread's place in background_data_refresh and its locals.  before is the
\* entry as the call found it when it set the flag; outcome is how the call
\* went so far.
ThreadInit(pc0) ==
  [pc |-> pc0, music_data |-> None, analytics |-> None, outcome |-> "none",
   before |-> NoEntry]

\* A call of background_data_refresh that has returned: its locals are gone.
\* What is kept is whether it returned at line 47 ("noop") or ran ("ran").
Returned(how) == [ThreadInit("done") EXCEPT !.outcome = how]

NoResponse ==
  [code |-> 0, tracks |-> << >>, total_available |-> 0, cache_status |-> "",
   last_updated |-> None, analytics |-> None, status |-> "",
   cache_valid |-> FALSE, is_updating |-> FALSE, has_data |-> FALSE,
   data_count |-> 0, cache_timeout_seconds |-> 0]

ReqInit ==
  [kind |-> "none", pc |-> "idle", force_refresh |-> FALSE,
   music_data |-> None, polls |-> 0, resp |-> NoResponse]

Init ==
  /\ CACHE = [music_data |-> None, analytics |-> None, last_updated |-> None,
              is_updating |-> FALSE]
  /\ lock = NoThread
  /\ now = 0
  /\ th = [t \in Threads |-> IF t = 0 THEN ThreadInit("l45") ELSE ThreadInit("idle")]
  /\ req = [r \in Requests |-> ReqInit]
  /\ running = 0
  /\ search = NoSearch
  /\ retry = NoRetry
  /\ featured = NoFeatured
  /\ playlist = NoPlaylist
  /\ uncached = NoUncached
  /\ dedup = NoDedup

\* ------------------------------------------------- background_data_refresh

\* A lock that excludes nobody.
LockFree_always(t) == TRUE

\* CACHE_LOCK is free for thread t to take
LockFree(t) == lock = NoThread

\* The early return passes through the clearing of the flag.
bdr_check_clears(t) ==
  /\ th[t].pc = "l45"
  /\ lock = NoThread
  /\ IF CACHE.is_updating
     THEN /\ th' = [th EXCEPT ![t] = Returned("noop")]
          /\ lock' = NoThread
          /\ CACHE' = [CACHE EXCEPT !.is_updating = FALSE]
     ELSE /\ th' = [th EXCEPT ![t].pc = "l48"]
          /\ lock' = t
          /\ CACHE' = CACHE
  /\ UNCHANGED <<now, req, running, connectors>>

\* lines 45-47: take the lock, test the flag; return (releasing the lock) when
\* a refresh is running
bdr_check(t) ==
  /\ th[t].pc = "l45"
  /\ LockFree(t)
  /\ IF CACHE.is_updating
     THEN /\ th' = [th EXCEPT ![t] = Returned("noop")]
          /\ lock' = NoThread
     ELSE /\ th' = [th EXCEPT ![t].pc = "l48"]
          /\ lock' = t
  /\ UNCHANGED <<CACHE, now, req, running, connectors>>

\* line 48 and the end of the with block: set the flag, release the lock
bdr_set(t) ==
  /\ th[t].pc = "l48"
  /\ CACHE' = [CACHE EXCEPT !.is_updating = TRUE]
  /\ lock' = NoThread
  /\ th' = [th EXCEPT ![t].pc = "l51", ![t].before = Entry(CACHE)]
  /\ UNCHANGED <<now, req, running, connectors>>

\* A failed fetch drops the cached dataset.
bdr_fetch_drops(t) ==
  /\ th[t].pc = "l51"
  /\ \/ /\ th' = [th EXCEPT ![t].pc = "l79", ![t].outcome = "raised"]
        /\ CACHE' = [CACHE EXCEPT !.music_data = None]
        /\ now' = now
     \/ /\ th' = [th EXCEPT ![t].pc = "l79", ![t].outcome = "nodata"]
        /\ UNCHANGED <<CACHE, now>>
     \/ \E rows \in Upstream, d \in FetchSteps :
          /\ now + d <= MaxTime
          /\ now' = now + d
          /\ CACHE' = CACHE
          /\ IF rows = << >>
             THEN th' = [th EXCEPT ![t].pc = "l79", ![t].outcome = "nodata"]
             ELSE th' = [th EXCEPT ![t].pc = "l60",
                                   ![t].music_data = Some(Stamped(rows, now'))]
  /\ UNCHANGED <<lock, req, running, connectors>>

\* A refresh without data stamps the entry with the time all the same.
bdr_fetch_renews(t) ==
  /\ th[t].pc = "l51"
  /\ \/ /\ th' = [th EXCEPT ![t].pc = "l79", ![t].outcome = "raised"]
        /\ UNCHANGED <<CACHE, now>>
     \/ /\ th' = [th EXCEPT ![t].pc = "l79", ![t].outcome = "nodata"]
        /\ CACHE' = [CACHE EXCEPT !.last_updated = Some(now)]
        /\ now' = now
     \/ \E rows \in Upstream, d \in FetchSteps :
          /\ now + d <= MaxTime
          /\ now' = now + d
          /\ IF rows = << >>
             THEN /\ th' = [th EXCEPT ![t].pc = "l79", ![t].outcome = "nodata"]
                  /\ CACHE' = [CACHE EXCEPT !.last_updated = Some(now')]
             ELSE /\ th' = [th EXCEPT ![t].pc = "l60",
                                      ![t].music_data = Some(Stamped(rows, now'))]
                  /\ CACHE' = CACHE
  /\ UNCHANGED <<lock, req, running, connectors>>

\* lines 51-58: build the connector and fetch.  The connector has no client
\* (no request is made), or the fetch reaches the network and returns a
\* dataset, empty or not, or an exception escapes.
bdr_fetch(t) ==
  /\ th[t].pc = "l51"
  /\ \/ /\ th' = [th EXCEPT ![t].pc = "l79", ![t].outcome = "raised"]
        /\ now' = now
     \/ /\ th' = [th EXCEPT ![t].pc = "l79", ![t].outcome = "nodata"]
        /\ now' = now
     \/ \E rows \in Upstream, d \in FetchSteps :
          /\ now + d <= MaxTime
          /\ now' = now + d
          /\ IF rows = << >>
             THEN th' = [th EXCEPT ![t].pc = "l79", ![t].outcome = "nodata"]
             ELSE th' = [th EXCEPT ![t].pc = "l60",
                                   ![t].music_data = Some(Stamped(rows, now'))]
  /\ UNCHANGED <<CACHE, lock, req, running, connectors>>

\* lines 60-67: the analytics of the fetched dataset, or an exception
bdr_analytics(t) ==
  /\ th[t].pc = "l60"
  /\ \/ th' = [th EXCEPT ![t].pc = "l69",
                         ![t].analytics = Some(ComputeAnalytics(Val(th[t].music_data), now))]
     \/ th' = [th EXCEPT ![t].pc = "l79", ![t].outcome = "raised"]
  /\ UNCHANGED <<CACHE, lock, now, req, running, connectors>>

\* The dataset is stored without the lock.
bdr_write_data_unlocked(t) ==
  /\ th[t].pc = "l69"
  /\ CACHE' = [CACHE EXCEPT !.music_data = th[t].music_data]
  /\ th' = [th EXCEPT ![t].pc = "l71"]
  /\ UNCHANGED <<lock, now, req, running, connectors>>

\* lines 69-70: take the lock, store the dataset
bdr_write_data(t) ==
  /\ th[t].pc = "l69"
  /\ LockFree(t)
  /\ lock' = t
  /\ CACHE' = [CACHE EXCEPT !.music_data = th[t].music_data]
  /\ th' = [th EXCEPT ![t].pc = "l71"]
  /\ UNCHANGED <<now, req, running, connectors>>

\* line 71
bdr_write_analytics(t) ==
  /\ th[t].pc = "l71"
  /\ CACHE' = [CACHE EXCEPT !.analytics = th[t].analytics]
  /\ th' = [th EXCEPT ![t].pc = "l72"]
  /\ UNCHANGED <<lock, now, req, running, connectors>>

\* last_updated is not written.
bdr_write_stamp_skipped(t) ==
  /\ th[t].pc = "l72"
  /\ lock' = NoThread
  /\ th' = [th EXCEPT ![t].pc = "l79", ![t].outcome = "updated"]
  /\ UNCHANGED <<CACHE, now, req, running, connectors>>

\* lines 72-73 and the end of the with block
bdr_write_stamp(t) ==
  /\ th[t].pc = "l72"
  /\ CACHE' = [CACHE EXCEPT !.last_updated = Some(now)]
  /\ lock' = NoThread
  /\ th' = [th EXCEPT ![t].pc = "l79", ![t].outcome = "updated"]
  /\ UNCHANGED <<now, req, running, connectors>>

\* The call returns without clearing the flag.
bdr_clear_forgets(t) ==
  /\ th[t].pc = "l79"
  /\ lock = NoThread
  /\ th' = [th EXCEPT ![t] = Returned("ran")]
  /\ UNCHANGED <<CACHE, lock, now, req, running, connectors>>

\* lines 78-80: finally, under the lock, clear the flag
bdr_clear(t) ==
  /\ th[t].pc = "l79"
  /\ LockFree(t)
  /\ CACHE' = [CACHE EXCEPT !.is_updating = FALSE]
  /\ lock' = NoThread
  /\ th' = [th EXCEPT ![t] = Returned("ran")]
  /\ UNCHANGED <<now, req, running, connectors>>

background_data_refresh(t) ==
  \/ bdr_check(t)
  \/ bdr_set(t)
  \/ bdr_fetch(t)
  \/ bdr_analytics(t)
  \/ bdr_write_data(t)
  \/ bdr_write_analytics(t)
  \/ bdr_write_stamp(t)
  \/ bdr_clear(t)

\* ------------------------------------------------------------- handlers

\* threading.Thread(target=background_data_refresh).start(): a new thread,
\* about to enter background_data_refresh
IdleThreads == {t \in Workers : th[t].pc = "idle"}
NewThread == CHOOSE t \in IdleThreads : \A u \in IdleThreads : t <= u

\* The handler returns (or raises HTTPException): the response is on its way.
Respond(r, response) ==
  /\ req' = [req EXCEPT ![r].pc = "sent", ![r].resp = response]
  /\ running' = running

\* The response is out; the request and its locals are gone and the event
\* loop takes the next piece of work.
finish(r) ==
  /\ running = r
  /\ req[r].pc = "sent"
  /\ req' = [req EXCEPT ![r] = ReqInit]
  /\ running' = 0
  /\ UNCHANGED <<CACHE, lock, now, th, connectors>>

\* A request arrives once startup is over and the event loop is free.
NewRequest(r) ==
  /\ th[0].pc = "done"
  /\ running = 0
  /\ req[r].pc = "idle"
  /\ \E k \in {"trending", "analytics", "refresh", "root", "status"}, f \in BOOLEAN :
       /\ k # "trending" => f = FALSE
       /\ req' = [req EXCEPT ![r] =
                    [ReqInit EXCEPT !.kind = k, !.force_refresh = f,
                                    !.pc = CASE k = "trending" -> "t109"
                                             [] k = "analytics" -> "a156"
                                             [] k = "root" -> "o100"
                                             [] k = "status" -> "s178"
                                             [] OTHER -> "r168"]]
  /\ running' = r
  /\ UNCHANGED <<CACHE, lock, now, th, connectors>>

At(r, k, line) == running = r /\ req[r].kind = k /\ req[r].pc = line

\* force_refresh is ignored.
NeedsRefresh_unforced(r) == ~is_cache_valid(CACHE, now)

\* line 109 of get_trending_tracks, line 156 of get_enhanced_analytics:
\* whether the handler goes on to the trigger
NeedsRefresh(r) ==
  IF req[r].kind = "trending"
  THEN ~is_cache_valid(CACHE, now) \/ req[r].force_refresh
  ELSE ~is_cache_valid(CACHE, now)

\* The trigger starts a thread whatever the flag says.
Trigger_always(r) ==
  /\ IdleThreads # {}
  /\ th' = [th EXCEPT ![NewThread].pc = "l45"]
  /\ req' = [req EXCEPT ![r].pc = IF req[r].kind = "trending" THEN "t115" ELSE "a160"]

\* lines 110-112 and lines 157-158: start a refresh thread unless the flag
\* is set
Trigger(r) ==
  IF ~CACHE.is_updating
  THEN /\ IdleThreads # {}
       /\ th' = [th EXCEPT ![NewThread].pc = "l45"]
       /\ req' = [req EXCEPT ![r].pc = IF req[r].kind = "trending" THEN "t115" ELSE "a160"]
  ELSE /\ th' = th
       /\ req' = [req EXCEPT ![r].pc = IF req[r].kind = "trending" THEN "t115" ELSE "a160"]

\* line 109
trending_check(r) ==
  /\ At(r, "trending", "t109")
  /\ req' = [req EXCEPT ![r].pc = IF NeedsRefresh(r) THEN "t110" ELSE "t122"]
  /\ UNCHANGED <<CACHE, lock, now, th, running, connectors>>

\* lines 110-112
trending_trigger(r) ==
  /\ At(r, "trending", "t110")
  /\ Trigger(r)
  /\ UNCHANGED <<CACHE, lock, now, running, connectors>>

\* The handler also waits for a refresh in flight.
trending_empty_awaits_refresh(r) ==
  /\ At(r, "trending", "t115")
  /\ req' = [req EXCEPT ![r].pc =
               IF IsNone(CACHE.music_data) \/ CACHE.is_updating THEN "t117" ELSE "t122"]
  /\ UNCHANGED <<CACHE, lock, now, th, running, connectors>>

\* line 115: with no dataset the handler enters the wait loop
trending_empty(r) ==
  /\ At(r, "trending", "t115")
  /\ req' = [req EXCEPT ![r].pc = IF IsNone(CACHE.music_data) THEN "t117" ELSE "t122"]
  /\ UNCHANGED <<CACHE, lock, now, th, running, connectors>>

\* The loop runs one round more.
trending_poll_once_more(r) ==
  /\ At(r, "trending", "t117")
  /\ IF req[r].polls <= WAIT_POLLS /\ IsNone(CACHE.music_data)
     THEN /\ req' = [req EXCEPT ![r].pc = "t120", ![r].polls = req[r].polls + 1]
          /\ running' = 0
     ELSE /\ req' = [req EXCEPT ![r].pc = "t122"]
          /\ running' = running
  /\ UNCHANGED <<CACHE, lock, now, th, connectors>>

\* lines 117-120: one round of the wait loop.  The round that finds a dataset,
\* or the end of the range, leaves the loop; any other round sleeps, which
\* gives the event loop away.
trending_poll(r) ==
  /\ At(r, "trending", "t117")
  /\ IF req[r].polls < WAIT_POLLS /\ IsNone(CACHE.music_data)
     THEN /\ req' = [req EXCEPT ![r].pc = "t120", ![r].polls = req[r].polls + 1]
          /\ running' = 0
     ELSE /\ req' = [req EXCEPT ![r].pc = "t122"]
          /\ running' = running
  /\ UNCHANGED <<CACHE, lock, now, th, connectors>>

\* the sleep of line 120 is over and the event loop is free: the coroutine
\* is resumed at the head of the loop
trending_wake(r) ==
  /\ running = 0
  /\ req[r].kind = "trending"
  /\ req[r].pc = "t120"
  /\ req' = [req EXCEPT ![r].pc = "t117"]
  /\ running' = r
  /\ UNCHANGED <<CACHE, lock, now, th, connectors>>

\* lines 122-123
trending_unavailable(r) ==
  /\ At(r, "trending", "t122")
  /\ IF IsNone(CACHE.music_data)
     THEN Respond(r, [NoResponse EXCEPT !.code = 503])
     ELSE /\ req' = [req EXCEPT ![r].pc = "t127"]
          /\ running' = running
  /\ UNCHANGED <<CACHE, lock, now, th, connectors>>

\* lines 126-143: the handler's reference to the dataset
trending_read(r) ==
  /\ At(r, "trending", "t127")
  /\ req' = [req EXCEPT ![r].pc = "t148", ![r].music_data = CACHE.music_data]
  /\ UNCHANGED <<CACHE, lock, now, th, running, connectors>>

\* the tracks of music_data.head(limit)
HeadRows(md, n) == SubSeq(md, 1, Min(n, Len(md)))

\* The two labels are swapped.
StatusLabel_swapped(valid) == IF valid THEN "stale" ELSE "fresh"

\* line 148
StatusLabel(valid) == IF valid THEN "fresh" ELSE "stale"

\* lines 126-148: the response's tracks, total_available and cache_status.
\* limit is the request's query parameter; nothing before line 129 reads it.
trending_status(r) ==
  /\ At(r, "trending", "t148")
  /\ \E limit \in Limits :
       req' = [req EXCEPT ![r].pc = "t149",
                          ![r].resp = [NoResponse EXCEPT
                             !.tracks = HeadRows(Val(req[r].music_data), limit),
                             !.total_available = Len(Val(req[r].music_data)),
                             !.cache_status = StatusLabel(is_cache_valid(CACHE, now))]]
  /\ UNCHANGED <<CACHE, lock, now, th, running, connectors>>

\* lines 149-150
trending_return(r) ==
  /\ At(r, "trending", "t149")
  /\ Respond(r, [req[r].resp EXCEPT !.code = 200, !.last_updated = CACHE.last_updated])
  /\ UNCHANGED <<CACHE, lock, now, th, connectors>>

get_trending_tracks(r) ==
  \/ trending_check(r)
  \/ trending_trigger(r)
  \/ trending_empty(r)
  \/ trending_poll(r)
  \/ trending_wake(r)
  \/ trending_unavailable(r)
  \/ trending_read(r)
  \/ trending_status(r)
  \/ trending_return(r)

\* line 156
analytics_check(r) ==
  /\ At(r, "analytics", "a156")
  /\ req' = [req EXCEPT ![r].pc = IF NeedsRefresh(r) THEN "a157" ELSE "a160"]
  /\ UNCHANGED <<CACHE, lock, now, th, running, connectors>>

\* lines 157-158
analytics_trigger(r) ==
  /\ At(r, "analytics", "a157")
  /\ Trigger(r)
  /\ UNCHANGED <<CACHE, lock, now, running, connectors>>

\* lines 160-161
analytics_unavailable(r) ==
  /\ At(r, "analytics", "a160")
  /\ IF IsNone(CACHE.analytics)
     THEN Respond(r, [NoResponse EXCEPT !.code = 503])
     ELSE /\ req' = [req EXCEPT ![r].pc = "a163"]
          /\ running' = running
  /\ UNCHANGED <<CACHE, lock, now, th, connectors>>

\* line 163
analytics_return(r) ==
  /\ At(r, "analytics", "a163")
  /\ Respond(r, [NoResponse EXCEPT !.code = 200, !.analytics = CACHE.analytics])
  /\ UNCHANGED <<CACHE, lock, now, th, connectors>>

get_enhanced_analytics(r) ==
  \/ analytics_check(r)
  \/ analytics_trigger(r)
  \/ analytics_unavailable(r)
  \/ analytics_return(r)

\* lines 166-172: the task is added and the response returned
refresh_return(r) ==
  /\ At(r, "refresh", "r168")
  /\ req' = [req EXCEPT ![r].pc = "r_task",
                        ![r].resp = [NoResponse EXCEPT !.code = 200, !.status = "processing"]]
  /\ UNCHANGED <<CACHE, lock, now, th, running, connectors>>

\* The task is dropped when a refresh is running.
refresh_task_unless_updating(r) ==
  /\ At(r, "refresh", "r_task")
  /\ IF CACHE.is_updating
     THEN th' = th
     ELSE /\ IdleThreads # {}
          /\ th' = [th EXCEPT ![NewThread].pc = "l45"]
  /\ req' = [req EXCEPT ![r].pc = "sent"]
  /\ UNCHANGED <<CACHE, lock, now, running, connectors>>

\* after the response, the added task: background_data_refresh is handed to a
\* thread of the pool
refresh_task(r) ==
  /\ At(r, "refresh", "r_task")
  /\ IdleThreads # {}
  /\ th' = [th EXCEPT ![NewThread].pc = "l45"]
  /\ req' = [req EXCEPT ![r].pc = "sent"]
  /\ UNCHANGED <<CACHE, lock, now, running, connectors>>

force_refresh(r) ==
  \/ refresh_return(r)
  \/ refresh_task(r)

\* line 100
root_status(r) ==
  /\ At(r, "root", "o100")
  /\ req' = [req EXCEPT ![r].pc = "o101",
                        ![r].resp.cache_status =
                           IF is_cache_valid(CACHE, now) THEN "active" ELSE "expired"]
  /\ UNCHANGED <<CACHE, lock, now, th, running, connectors>>

\* The handler stamps the entry as it reports it.
root_return_touches(r) ==
  /\ At(r, "root", "o101")
  /\ CACHE' = [CACHE EXCEPT !.last_updated = Some(now)]
  /\ Respond(r, [req[r].resp EXCEPT !.code = 200, !.last_updated = Some(now)])
  /\ UNCHANGED <<lock, now, th, connectors>>

\* lines 101-102
root_return(r) ==
  /\ At(r, "root", "o101")
  /\ Respond(r, [req[r].resp EXCEPT !.code = 200, !.last_updated = CACHE.last_updated])
  /\ UNCHANGED <<CACHE, lock, now, th, connectors>>

root(r) ==
  \/ root_status(r)
  \/ root_return(r)

\* line 178
status_valid(r) ==
  /\ At(r, "status", "s178")
  /\ req' = [req EXCEPT ![r].pc = "s179",
                        ![r].resp.cache_valid = is_cache_valid(CACHE, now)]
  /\ UNCHANGED <<CACHE, lock, now, th, running, connectors>>

\* line 179
status_last_updated(r) ==
  /\ At(r, "status", "s179")
  /\ req' = [req EXCEPT ![r].pc = "s180",
                        ![r].resp.last_updated = CACHE.last_updated]
  /\ UNCHANGED <<CACHE, lock, now, th, running, connectors>>

\* line 180
status_is_updating(r) ==
  /\ At(r, "status", "s180")
  /\ req' = [req EXCEPT ![r].pc = "s181",
                        ![r].resp.is_updating = CACHE.is_updating]
  /\ UNCHANGED <<CACHE, lock, now, th, running, connectors>>

\* line 181
status_has_data(r) ==
  /\ At(r, "status", "s181")
  /\ req' = [req EXCEPT ![r].pc = "s182",
                        ![r].resp.has_data = ~IsNone(CACHE.music_data)]
  /\ UNCHANGED <<CACHE, lock, now, th, running, connectors>>

\* The rows are counted less one.
status_return_short(r) ==
  /\ At(r, "status", "s182")
  /\ Respond(r, [req[r].resp EXCEPT
                   !.code = 200,
                   !.data_count = IF IsNone(CACHE.music_data) THEN 0
                                  ELSE Len(Val(CACHE.music_data)) - 1,
                   !.cache_timeout_seconds = CACHE_TIMEOUT])
  /\ UNCHANGED <<CACHE, lock, now, th, connectors>>

\* lines 182-184
status_return(r) ==
  /\ At(r, "status", "s182")
  /\ Respond(r, [req[r].resp EXCEPT
                   !.code = 200,
                   !.data_count = IF IsNone(CACHE.music_data) THEN 0
                                  ELSE Len(Val(CACHE.music_data)),
                   !.cache_timeout_seconds = CACHE_TIMEOUT])
  /\ UNCHANGED <<CACHE, lock, now, th, connectors>>

get_cache_status(r) ==
  \/ status_valid(r)
  \/ status_last_updated(r)
  \/ status_is_updating(r)
  \/ status_has_data(r)
  \/ status_return(r)

\* The clock moves on.
Tick ==
  /\ \E d \in TickSteps : now + d <= MaxTime /\ now' = now + d
  /\ UNCHANGED <<CACHE, lock, th, req, running, connectors>>

Next ==
  \/ \E t \in Threads : background_data_refresh(t)
  \/ \E r \in Requests : NewRequest(r)
  \/ \E r \in Requests : get_trending_tracks(r)
  \/ \E r \in Requests : get_enhanced_analytics(r)
  \/ \E r \in Requests : force_refresh(r)
  \/ \E r \in Requests : root(r)
  \/ \E r \in Requests : get_cache_status(r)
  \/ \E r \in Requests : finish(r)
  \/ Tick

Spec == Init /\ [][Next]_vars

\* ------------------------------------------- a waiting reader among others

\* The clients of the specification of the wait loop: client 1 asks for
\* /trending, the other clients for the endpoints that never sleep.
MaxClients == 2
Clients == 1..MaxClients

\* await asyncio.sleep(0.2), in milliseconds
POLL_SLEEP_MS == 200

InitWait ==
  /\ CACHE = [music_data |-> None, analytics |-> None, last_updated |-> None,
              is_updating |-> FALSE]
  /\ lock = NoThread
  /\ now = 0
  /\ th = [t \in Threads |-> IF t = 0 THEN ThreadInit("l45") ELSE ThreadInit("idle")]
  /\ req = [r \in Clients |-> ReqInit]
  /\ running = 0
  /\ search = NoSearch
  /\ retry = NoRetry
  /\ featured = NoFeatured
  /\ playlist = NoPlaylist
  /\ uncached = NoUncached
  /\ dedup = NoDedup

\* The sleeps of the reader during which the other clients' requests arrive:
\* its last, at the ceiling.
ArrivalPolls == {WAIT_POLLS}

\* A request of client r arrives: the /trending read of client 1 is the first
\* request after a startup that stored no dataset; a request of another client
\* arrives while that read is asleep in its wait loop.  A thread is left for
\* the trigger of the request to start: the process never runs out of threads.
arrive(r) ==
  /\ IdleThreads # {}
  /\ IF r = 1 THEN IsNone(CACHE.music_data) /\ IdleThreads = Workers
     ELSE req[1].pc = "t120" /\ req[1].polls \in ArrivalPolls
  /\ NewRequest(r)
  /\ (r = 1) <=> (req'[r].kind = "trending")

\* The steps of the handler of request r that run once the event loop has
\* given it control.
handler(r) ==
  \/ trending_check(r)
  \/ trending_trigger(r)
  \/ trending_empty(r)
  \/ trending_poll(r)
  \/ trending_unavailable(r)
  \/ trending_read(r)
  \/ trending_status(r)
  \/ trending_return(r)
  \/ get_enhanced_analytics(r)
  \/ force_refresh(r)
  \/ root(r)
  \/ get_cache_status(r)
  \/ finish(r)

NextWait ==
  \/ \E t \in Threads : background_data_refresh(t)
  \/ \E r \in Clients : arrive(r)
  \/ \E r \in Clients : handler(r)
  \/ \E r \in Clients : trending_wake(r)

\* The event loop runs the handler it has given control to, and a coroutine
\* whose sleep is over is resumed, however often other requests are served in
\* between.  Nothing is asked of the refresh threads: a fetch may hang.
FairWait ==
  \A r \in Clients : WF_vars(handler(r)) /\ SF_vars(trending_wake(r))

SpecWait == InitWait /\ [][NextWait]_vars /\ FairWait

\* ------------------ SpotifyMusicConnector.get_trending_music_via_search

\* The search terms of a call, the items of one search result, and the values
\* the items are made of.
MaxTerms == 2
MaxItems == 2
TrackIds == {"a", "b"}
Popularities == {10, 90}

\* An item of results['tracks']['items']: a track with an id and a
\* popularity, a track without an id, or a track whose fields make the
\* extraction of lines 92-119 raise.
Items ==
  [id : {Some(i) : i \in TrackIds}, popularity : Popularities, raises : {FALSE}]
    \cup {[id |-> None, popularity |-> 90, raises |-> FALSE],
          [id |-> Some("a"), popularity |-> 90, raises |-> TRUE]}

\* self.sp.search raised
SearchFailed == [failed |-> TRUE, items |-> << >>]

\* What the search of one term gives: an exception or a list of items.
TermResults ==
  {SearchFailed}
    \cup {[failed |-> FALSE, items |-> is] :
            is \in UNION {[1..n -> Items] : n \in 0..MaxItems}}

\* An item whose extraction raises ends the rows of its result.
RECURSIVE ExtractRows_aborting(_, _)
ExtractRows_aborting(items, term) ==
  IF items = << >> THEN << >>
  ELSE LET track == Head(items)
       IN IF track.raises THEN << >>
          ELSE IF IsNone(track.id) THEN ExtractRows_aborting(Tail(items), term)
          ELSE <<[track_id |-> Val(track.id), popularity |-> track.popularity,
                  term |-> term]>> \o ExtractRows_aborting(Tail(items), term)

\* lines 86-124: the rows appended for the items of one result.  An item
\* without an id is passed over (line 88), one whose extraction raises is
\* passed over (line 124); term is kept with the row as its data_source.
RECURSIVE ExtractRows(_, _)
ExtractRows(items, term) ==
  IF items = << >> THEN << >>
  ELSE LET track == Head(items)
           rest == ExtractRows(Tail(items), term)
       IN IF IsNone(track.id) \/ track.raises THEN rest
          ELSE <<[track_id |-> Val(track.id), popularity |-> track.popularity,
                  term |-> term]>> \o rest

\* df.drop_duplicates(subset=['track_id']): of the rows sharing a track_id
\* the first one is kept, the rows kept stay in their order
RECURSIVE drop_duplicates(_)
drop_duplicates(rows) ==
  IF rows = << >> THEN << >>
  ELSE LET body == drop_duplicates(SubSeq(rows, 1, Len(rows) - 1))
           last == rows[Len(rows)]
       IN IF \E i \in DOMAIN body : body[i].track_id = last.track_id
          THEN body
          ELSE Append(body, last)

\* df.sort_values('popularity', ascending=False): the rows in an order of
\* falling popularity.  The sort is not a stable one: rows of equal
\* popularity come in any order.
sort_values(rows) ==
  {[i \in DOMAIN rows |-> rows[f[i]]] :
     f \in {g \in [DOMAIN rows -> DOMAIN rows] :
              /\ \A i, j \in DOMAIN rows : i # j => g[i] # g[j]
              /\ \A i, j \in DOMAIN rows :
                   i < j => rows[g[i]].popularity >= rows[g[j]].popularity}}

\* A call is made: what each of its searches will give is drawn here.
InitSearch ==
  /\ CACHE = [music_data |-> None, analytics |-> None, last_updated |-> None,
              is_updating |-> FALSE]
  /\ lock = NoThread
  /\ now = 0
  /\ th = [t \in Threads |-> ThreadInit("idle")]
  /\ req = [r \in Requests |-> ReqInit]
  /\ running = 0
  /\ \E rs \in [1..MaxTerms -> TermResults] :
       search = [pc |-> "l74", results |-> rs, term |-> 1, trending_tracks |-> << >>,
                 df |-> << >>, critical |-> FALSE]
  /\ retry = NoRetry
  /\ featured = NoFeatured
  /\ playlist = NoPlaylist
  /\ uncached = NoUncached
  /\ dedup = NoDedup

\* lines 74-128: one round of the loop over the search terms.  A search that
\* raises leaves the rows as they are (lines 126-128).
search_term ==
  /\ search.pc = "l74"
  /\ search.term <= Len(search.results)
  /\ LET results == search.results[search.term]
     IN search' = [search EXCEPT
          !.term = search.term + 1,
          !.trending_tracks =
             IF results.failed THEN search.trending_tracks
             ELSE search.trending_tracks \o ExtractRows(results.items, search.term)]
  /\ UNCHANGED <<api, retry, featured, playlist, uncached, dedup>>

\* the loop is over
search_done ==
  /\ search.pc = "l74"
  /\ search.term > Len(search.results)
  /\ search' = [search EXCEPT !.pc = "l130"]
  /\ UNCHANGED <<api, retry, featured, playlist, uncached, dedup>>

\* The rows are returned without their duplicates, in the order fetched.
search_return_unsorted ==
  /\ search.pc = "l130"
  /\ search' = [search EXCEPT !.pc = "returned",
                                !.df = drop_duplicates(search.trending_tracks)]
  /\ UNCHANGED <<api, retry, featured, playlist, uncached, dedup>>

\* lines 130-138: the DataFrame returned
search_return ==
  /\ search.pc = "l130"
  /\ IF search.trending_tracks # << >>
     THEN \E df \in sort_values(drop_duplicates(search.trending_tracks)) :
            search' = [search EXCEPT !.pc = "returned", !.df = df]
     ELSE search' = [search EXCEPT !.pc = "returned", !.df = << >>]
  /\ UNCHANGED <<api, retry, featured, playlist, uncached, dedup>>

\* lines 140-142: an exception that leaves the loop or the making of the
\* DataFrame is logged as a critical error; the empty DataFrame is returned
search_critical ==
  /\ search.pc \in {"l74", "l130"}
  /\ search' = [search EXCEPT !.pc = "returned", !.df = << >>, !.critical = TRUE]
  /\ UNCHANGED <<api, retry, featured, playlist, uncached, dedup>>

get_trending_music_via_search ==
  \/ search_term
  \/ search_done
  \/ search_return
  \/ search_critical

SpecSearch == InitSearch /\ [][get_trending_music_via_search]_vars

\* ------------------- SecureSpotifyConnector._make_request_with_retry

\* self.max_retries and self.rate_limit_buffer (in milliseconds)
max_retries == 3
rate_limit_buffer_ms == 100

\* What a call of the wrapped function returns, and the Retry-After headers
\* of a rate-limited response (no header at all being one of them).
Values == {"x", "y"}
RetryAfters == {None, Some(0), Some(2)}

\* How one invocation of func ends: with a value, or with a
\* spotipy.SpotifyException of status 429, of status 401 or of another status,
\* or with another exception.
Outcomes ==
  {[kind |-> "ok", value |-> v, retry_after |-> None] : v \in Values}
    \cup {[kind |-> "429", value |-> "", retry_after |-> ra] : ra \in RetryAfters}
    \cup {[kind |-> k, value |-> "", retry_after |-> None] :
            k \in {"401", "SpotifyException", "Exception"}}

\* int(e.headers.get('Retry-After', 1))
retry_after(e) == IF IsNone(e.retry_after) THEN 1 ELSE Val(e.retry_after)

RECURSIVE Pow2(_)
Pow2(n) == IF n = 0 THEN 1 ELSE 2 * Pow2(n - 1)

\* A call is made.
InitRetry ==
  /\ CACHE = [music_data |-> None, analytics |-> None, last_updated |-> None,
              is_updating |-> FALSE]
  /\ lock = NoThread
  /\ now = 0
  /\ th = [t \in Threads |-> ThreadInit("idle")]
  /\ req = [r \in Requests |-> ReqInit]
  /\ running = 0
  /\ search = NoSearch
  /\ retry = [NoRetry EXCEPT !.pc = "l159", !.authenticated = TRUE]
  /\ featured = NoFeatured
  /\ playlist = NoPlaylist
  /\ uncached = NoUncached
  /\ dedup = NoDedup

\* Rate limiting does not use up the attempts.
retry_handle_free_429 ==
  /\ retry.pc = "l165"
  /\ LET e == retry.calls[Len(retry.calls)]
         last == retry.attempt = max_retries - 1
     IN \/ /\ e.kind = "429"
           /\ retry' = [retry EXCEPT !.pc = "l159",
                          !.slept_ms = retry.slept_ms + 1000 * (retry_after(e) + 1)]
        \/ /\ e.kind = "401"
           /\ \/ retry' = [retry EXCEPT !.pc = "l159", !.attempt = retry.attempt + 1,
                                         !.authenticated = TRUE]
              \/ retry' = [retry EXCEPT !.pc = "raised", !.error = e.kind,
                                         !.authenticated = FALSE]
        \/ /\ e.kind \in {"SpotifyException", "Exception"}
           /\ IF last
              THEN retry' = [retry EXCEPT !.pc = "raised", !.error = e.kind]
              ELSE retry' = [retry EXCEPT !.pc = "l159", !.attempt = retry.attempt + 1,
                               !.slept_ms = retry.slept_ms + 1000 * Pow2(retry.attempt)]
  /\ UNCHANGED <<api, search, featured, playlist, uncached, dedup>>

\* The loop over, the last value seen is returned.
retry_exhausted_returns ==
  /\ retry.pc = "l159"
  /\ retry.attempt >= max_retries
  /\ retry' = [retry EXCEPT !.pc = "returned", !.result = Some("x")]
  /\ UNCHANGED <<api, search, featured, playlist, uncached, dedup>>

\* A failed re-authentication is passed over and the request made again.
retry_handle_reauth_ignored ==
  /\ retry.pc = "l165"
  /\ LET e == retry.calls[Len(retry.calls)]
         last == retry.attempt = max_retries - 1
     IN \/ /\ e.kind = "429"
           /\ retry' = [retry EXCEPT !.pc = "l159", !.attempt = retry.attempt + 1,
                          !.slept_ms = retry.slept_ms + 1000 * (retry_after(e) + 1)]
        \/ /\ e.kind = "401"
           /\ \E ok \in BOOLEAN :
                retry' = [retry EXCEPT !.pc = "l159", !.attempt = retry.attempt + 1,
                                       !.authenticated = ok]
        \/ /\ e.kind \in {"SpotifyException", "Exception"}
           /\ IF last
              THEN retry' = [retry EXCEPT !.pc = "raised", !.error = e.kind]
              ELSE retry' = [retry EXCEPT !.pc = "l159", !.attempt = retry.attempt + 1,
                               !.slept_ms = retry.slept_ms + 1000 * Pow2(retry.attempt)]
  /\ UNCHANGED <<api, search, featured, playlist, uncached, dedup>>

\* lines 159-163: one more round of the loop: the pause, then the invocation
\* of func, whose value is returned if it gives one
retry_call ==
  /\ retry.pc = "l159"
  /\ retry.attempt < max_retries
  /\ \E o \in Outcomes :
       retry' = [retry EXCEPT
          !.calls = Append(retry.calls, o),
          !.slept_ms = retry.slept_ms + rate_limit_buffer_ms,
          !.pc = IF o.kind = "ok" THEN "returned" ELSE "l165",
          !.result = IF o.kind = "ok" THEN Some(o.value) ELSE None]
  /\ UNCHANGED <<api, search, featured, playlist, uncached, dedup>>

\* lines 165-187: the exception of the invocation.  After a 401 the
\* connector authenticates again (_authenticate, lines 113-144), with or
\* without success; _authenticate sets self.authenticated accordingly.
retry_handle ==
  /\ retry.pc = "l165"
  /\ LET e == retry.calls[Len(retry.calls)]
         last == retry.attempt = max_retries - 1
     IN \/ /\ e.kind = "429"
           /\ retry' = [retry EXCEPT !.pc = "l159", !.attempt = retry.attempt + 1,
                          !.slept_ms = retry.slept_ms + 1000 * (retry_after(e) + 1)]
        \/ /\ e.kind = "401"
           /\ \/ retry' = [retry EXCEPT !.pc = "l159", !.attempt = retry.attempt + 1,
                                         !.authenticated = TRUE]
              \/ retry' = [retry EXCEPT !.pc = "raised", !.error = e.kind,
                                         !.authenticated = FALSE]
        \/ /\ e.kind \in {"SpotifyException", "Exception"}
           /\ IF last
              THEN retry' = [retry EXCEPT !.pc = "raised", !.error = e.kind]
              ELSE retry' = [retry EXCEPT !.pc = "l159", !.attempt = retry.attempt + 1,
                               !.slept_ms = retry.slept_ms + 1000 * Pow2(retry.attempt)]
  /\ UNCHANGED <<api, search, featured, playlist, uncached, dedup>>

\* line 189: the range is used up
retry_exhausted ==
  /\ retry.pc = "l159"
  /\ retry.attempt >= max_retries
  /\ retry' = [retry EXCEPT !.pc = "raised", !.error = "Failed after 3 attempts"]
  /\ UNCHANGED <<api, search, featured, playlist, uncached, dedup>>

make_request_with_retry ==
  \/ retry_call
  \/ retry_handle
  \/ retry_exhausted

\* The thread that makes the call runs.
SpecRetry ==
  InitRetry /\ [][make_request_with_retry]_vars /\ WF_vars(make_request_with_retry)

\* ------------------------------------------- the connector's result cache
\* SecureSpotifyConnector.get_featured_playlists with _check_cache and
\* _set_cache (secure_spotify_connector.py lines 191-229).  The connector is
\* used by one thread: a call is one step.  featured.clock is what
\* datetime.now() returns, in seconds.
MaxClock == 601

\* line 83
cache_duration == 300

\* The time that passes between two calls; a request takes none of it.
ClockSteps == {299, 300}

\* The value of result['playlists']['items'].
PlaylistItems == {<< >>, <<"p1">>, <<"p1", "p2">>}

\* What _make_request_with_retry does in line 216: it returns the result, or
\* raises after it authenticated again without success (lines 171-176), or
\* raises another exception.
FeaturedOutcomes ==
  {[kind |-> "ok", items |-> i] : i \in PlaylistItems}
    \cup {[kind |-> k, items |-> << >>] : k \in {"unauthorized", "failed"}}

\* lines 191-198
check_cache(f, key) ==
  IF /\ ~IsNone(f.cache[key])
     /\ f.clock - Val(f.cache[key]).timestamp < cache_duration
  THEN Some(Val(f.cache[key]).data)
  ELSE None

\* line 212, "if cached_result:": None and the empty list are false.
Truthy(cached_result) == ~IsNone(cached_result) /\ Val(cached_result) # << >>

\* lines 200-202
set_cache(f, key, data) ==
  [f.cache EXCEPT ![key] = Some([timestamp |-> f.clock, data |-> data])]

InitFeatured ==
  /\ CACHE = NoEntry
  /\ lock = NoThread
  /\ now = 0
  /\ th = [t \in Threads |-> ThreadInit("idle")]
  /\ req = [r \in Requests |-> ReqInit]
  /\ running = 0
  /\ search = NoSearch
  /\ retry = NoRetry
  /\ featured = [NoFeatured EXCEPT !.pc = "ready", !.authenticated = TRUE]
  /\ playlist = NoPlaylist
  /\ uncached = NoUncached
  /\ dedup = NoDedup

\* lines 204-229
get_featured_playlists(limit, country) ==
  /\ featured.pc = "ready"
  /\ LET key == cache_key(limit, country)
         cached_result == check_cache(featured, key)
     IN IF ~featured.authenticated
        THEN featured' = [featured EXCEPT
               !.call = [key |-> key, requested |-> FALSE, returned |-> << >>]]
        ELSE IF Truthy(cached_result)
        THEN featured' = [featured EXCEPT
               !.call = [key |-> key, requested |-> FALSE,
                         returned |-> Val(cached_result)]]
        ELSE \E out \in FeaturedOutcomes :
               IF out.kind = "ok"
               THEN featured' = [featured EXCEPT
                      !.cache = set_cache(featured, key, out.items),
                      !.call = [key |-> key, requested |-> TRUE,
                                returned |-> out.items]]
               ELSE featured' = [featured EXCEPT
                      !.authenticated = (out.kind # "unauthorized"),
                      !.call = [key |-> key, requested |-> TRUE,
                                returned |-> << >>]]
  /\ UNCHANGED <<api, search, retry, playlist, uncached, dedup>>

\* Time passes between two calls.
featured_tick ==
  /\ featured.pc = "ready"
  /\ \E d \in ClockSteps :
       /\ featured.clock + d <= MaxClock
       /\ featured' = [featured EXCEPT !.clock = featured.clock + d]
  /\ UNCHANGED <<api, search, retry, playlist, uncached, dedup>>

NextFeatured ==
  \/ \E l \in FeaturedLimits, c \in Countries : get_featured_playlists(l, c)
  \/ featured_tick

SpecFeatured == InitFeatured /\ [][NextFeatured]_vars

\* ------------------------------------------------- the tracks of a playlist
\* SecureSpotifyConnector.get_playlist_tracks (secure_spotify_connector.py
\* lines 231-271).  A playlist is its length and the places of its items that
\* are not whole tracks; a track is known by its place in the playlist.
MaxPlaylist == 101

\* line 242: "Max 50 per request"
BATCH == 50

PlaylistLens == {0, 1, 49, 50, 51, MaxPlaylist}
PlaylistLimits == {-1, 0, 1, 50, 51, 120}
BadPlaces == {{}, {1}, {50}, {1, 51}}

\* What an item of the playlist is: a whole track; an item whose 'track' is
\* None or whose track has the id None (line 257, skipped); a track with an id
\* and without one of the fields of lines 276-291 (_extract_track_data returns
\* None, skipped); a track object without the key 'id' (line 257 raises
\* KeyError).
ItemKinds == {"no_track", "no_id", "incomplete", "malformed"}

KindAt(pl, i) == IF i \in pl.bad THEN pl.kind ELSE "ok"

\* The places from..to of the playlist, in order.
Places(from, to) == [i \in 1..(to - from + 1) |-> from + i - 1]

\* lines 244-251: the items the API returns for limit and offset.
Page(pl, limit, offset) == Places(offset + 1, Min(offset + limit, pl.len))

\* lines 256-260: the track data of the items of a batch that have them.
Extracted(pl, tracks) ==
  LET whole(i) == KindAt(pl, i) = "ok" IN SelectSeq(tracks, whole)

Max0(n) == IF n > 0 THEN n ELSE 0

\* line 267: all_tracks[:limit]
SliceTo(seq, limit) ==
  IF limit >= 0
  THEN SubSeq(seq, 1, Min(limit, Len(seq)))
  ELSE SubSeq(seq, 1, Len(seq) + limit)

InitPlaylist ==
  /\ CACHE = NoEntry
  /\ lock = NoThread
  /\ now = 0
  /\ th = [t \in Threads |-> ThreadInit("idle")]
  /\ req = [r \in Requests |-> ReqInit]
  /\ running = 0
  /\ search = NoSearch
  /\ retry = NoRetry
  /\ featured = NoFeatured
  /\ uncached = NoUncached
  /\ dedup = NoDedup
  /\ \E n \in PlaylistLens, b \in BadPlaces, k \in ItemKinds, l \in PlaylistLimits,
        a \in BOOLEAN :
       playlist = [NoPlaylist EXCEPT !.pc = "l233", !.len = n, !.bad = b,
                     !.kind = IF b = {} THEN "ok" ELSE k, !.limit = l,
                     !.authenticated = a]

\* lines 233-239
gpt_enter ==
  /\ playlist.pc = "l233"
  /\ IF playlist.authenticated
     THEN playlist' = [playlist EXCEPT !.pc = "l241"]
     ELSE playlist' = [playlist EXCEPT !.pc = "returned", !.returned = Some(<< >>)]
  /\ UNCHANGED <<api, search, retry, featured, uncached, dedup>>

\* On a failed request the tracks collected so far are returned.
gpt_request_keeps ==
  /\ playlist.pc = "l241"
  /\ IF Len(playlist.all_tracks) < playlist.limit
     THEN LET batch_limit == Min(BATCH, playlist.limit - Len(playlist.all_tracks))
              request == [limit |-> batch_limit, offset |-> playlist.offset,
                          had |-> Len(playlist.all_tracks)]
          IN \/ playlist' = [playlist EXCEPT
                   !.pc = "l251", !.batch_limit = batch_limit,
                   !.tracks = Page(playlist, batch_limit, playlist.offset),
                   !.requests = Append(@, request)]
             \/ playlist' = [playlist EXCEPT
                   !.pc = "returned", !.failed = TRUE,
                   !.requests = Append(@, request),
                   !.returned = Some(playlist.all_tracks)]
     ELSE playlist' = [playlist EXCEPT !.pc = "l266"]
  /\ UNCHANGED <<api, search, retry, featured, uncached, dedup>>

\* lines 241-249 and 269-271: the test of the loop and the request of one
\* batch, which _make_request_with_retry answers or fails
gpt_request ==
  /\ playlist.pc = "l241"
  /\ IF Len(playlist.all_tracks) < playlist.limit
     THEN LET batch_limit == Min(BATCH, playlist.limit - Len(playlist.all_tracks))
              request == [limit |-> batch_limit, offset |-> playlist.offset,
                          had |-> Len(playlist.all_tracks)]
          IN \/ playlist' = [playlist EXCEPT
                   !.pc = "l251", !.batch_limit = batch_limit,
                   !.tracks = Page(playlist, batch_limit, playlist.offset),
                   !.requests = Append(@, request)]
             \/ playlist' = [playlist EXCEPT
                   !.pc = "returned", !.failed = TRUE,
                   !.requests = Append(@, request),
                   !.returned = Some(<< >>)]
     ELSE playlist' = [playlist EXCEPT !.pc = "l266"]
  /\ UNCHANGED <<api, search, retry, featured, uncached, dedup>>

\* lines 251-264 and 269-271: the batch
gpt_batch ==
  /\ playlist.pc = "l251"
  /\ LET tracks == playlist.tracks
     IN IF tracks = << >>
        THEN playlist' = [playlist EXCEPT !.pc = "l266"]
        ELSE IF \E i \in DOMAIN tracks : KindAt(playlist, tracks[i]) = "malformed"
        THEN playlist' = [playlist EXCEPT !.pc = "returned", !.tracks = << >>,
                                          !.returned = Some(<< >>)]
        ELSE playlist' = [playlist EXCEPT
               !.all_tracks = @ \o Extracted(playlist, tracks),
               !.offset = @ + playlist.batch_limit,
               !.tracks = << >>,
               !.pc = IF Len(tracks) < playlist.batch_limit THEN "l266" ELSE "l241"]
  /\ UNCHANGED <<api, search, retry, featured, uncached, dedup>>

\* lines 266-267
gpt_return ==
  /\ playlist.pc = "l266"
  /\ playlist' = [playlist EXCEPT
       !.pc = "returned",
       !.returned = Some(SliceTo(playlist.all_tracks, playlist.limit))]
  /\ UNCHANGED <<api, search, retry, featured, uncached, dedup>>

get_playlist_tracks == gpt_enter \/ gpt_request \/ gpt_batch \/ gpt_return

SpecPlaylist ==
  InitPlaylist /\ [][get_playlist_tracks]_vars /\ WF_vars(get_playlist_tracks)

\* --------------------------------------------------------- the uncached API
\* The handlers of /trending and /analytics of music_api.py (lines 51-152).
\* Each request builds a connector and fetches; nothing is kept between
\* requests.  A row of the dataset is its popularity.
MaxRows == 2

\* The datasets get_trending_music_via_search returns.
Datasets ==
  {<< >>} \cup UNION {[1..n -> Popularities] : n \in 1..MaxRows}

\* fastapi.HTTPException(status_code, detail), an Exception, and another
\* exception with its message.
HTTPException(status_code, detail) ==
  [raised |-> TRUE, http |-> TRUE, status_code |-> status_code, detail |-> detail]
OtherException(message) ==
  [raised |-> TRUE, http |-> FALSE, status_code |-> 0, detail |-> message]

\* str(e), lines 98 and 152.  For an HTTPException it is "<status_code>:
\* <detail>" where the class defines __str__ and the empty string where it
\* does not, which depends on the version of the framework installed.
StrOf(e, str_of_fields) ==
  IF ~e.http THEN e.detail
  ELSE IF ~str_of_fields THEN ""
  ELSE IF e.status_code = 404 /\ e.detail = "No trending data found"
  THEN "404: No trending data found"
  ELSE IF e.status_code = 404 /\ e.detail = "No data available for analytics"
  THEN "404: No data available for analytics"
  ELSE "500: Spotify API connection failed"

InitUncached ==
  /\ CACHE = NoEntry
  /\ lock = NoThread
  /\ now = 0
  /\ th = [t \in Threads |-> ThreadInit("idle")]
  /\ req = [r \in Requests |-> ReqInit]
  /\ running = 0
  /\ search = NoSearch
  /\ retry = NoRetry
  /\ featured = NoFeatured
  /\ playlist = NoPlaylist
  /\ dedup = NoDedup
  /\ \E path \in {"/trending", "/analytics"}, limit \in Limits, sp \in BOOLEAN,
        md \in Datasets, cv \in BOOLEAN, sf \in BOOLEAN :
       uncached = [NoUncached EXCEPT !.pc = "connect", !.path = path,
                     !.limit = IF path = "/trending" THEN limit ELSE 50,
                     !.sp = sp, !.music_data = md, !.converts = cv,
                     !.str_of_fields = sf]

\* lines 57-59 and 106-108: the connector and its client
uapi_connect ==
  /\ uncached.pc = "connect"
  /\ IF ~uncached.sp
     THEN uncached' = [uncached EXCEPT
            !.pc = "except",
            !.e = HTTPException(500, "Spotify API connection failed")]
     ELSE uncached' = [uncached EXCEPT !.pc = "fetch"]
  /\ UNCHANGED <<api, search, retry, featured, playlist, dedup>>

\* lines 62-65 and 111-114: the dataset, and the test for the empty one
uapi_fetch ==
  /\ uncached.pc = "fetch"
  /\ IF uncached.music_data = << >>
     THEN uncached' = [uncached EXCEPT
            !.pc = "except",
            !.e = HTTPException(404,
                    IF uncached.path = "/trending" THEN "No trending data found"
                    ELSE "No data available for analytics")]
     ELSE uncached' = [uncached EXCEPT !.pc = "build"]
  /\ UNCHANGED <<api, search, retry, featured, playlist, dedup>>

\* lines 67-94 and 116-148: the body of the answer, whose conversions of the
\* fields of a row raise or do not
uapi_build ==
  /\ uncached.pc = "build"
  /\ IF uncached.converts
     THEN uncached' = [uncached EXCEPT
            !.pc = "sent",
            !.response = [NoReply EXCEPT
               !.status_code = 200,
               !.total = IF uncached.path = "/trending"
                         THEN Min(uncached.limit, Len(uncached.music_data))
                         ELSE Len(uncached.music_data)]]
     ELSE uncached' = [uncached EXCEPT
            !.pc = "except", !.e = OtherException("conversion failed")]
  /\ UNCHANGED <<api, search, retry, featured, playlist, dedup>>

\* lines 96-98 and 150-152: "except Exception as e" catches every exception
\* raised in the try block, the HTTPExceptions of the handler included, and
\* raises HTTPException(500, str(e)), which the framework answers with
uapi_except ==
  /\ uncached.pc = "except"
  /\ uncached' = [uncached EXCEPT
       !.pc = "sent",
       !.response = [NoReply EXCEPT !.status_code = 500,
                       !.detail = StrOf(uncached.e, uncached.str_of_fields)]]
  /\ UNCHANGED <<api, search, retry, featured, playlist, dedup>>

uncached_api == uapi_connect \/ uapi_fetch \/ uapi_build \/ uapi_except

SpecUncached == InitUncached /\ [][uncached_api]_vars

\* ------------------------------------------------ helpers.deduplicate_tracks
\* deduplicate_tracks with clean_track_name and clean_artist_name (helpers.py
\* lines 24-53 and 113-134).  A name is a sequence of pieces: a word ("A",
\* "B", "X", "Y"), a whitespace character (" "), a group "(feat. ...)",
\* "(ft. ...)" or "(featuring ...)" ("F"), and a mark "- Remaster" or
\* "- <year> Remaster" ("R").
MaxDedupRows == 3

TrackNames ==
  {<< >>, <<"A">>, <<" ", "A", " ", "F">>, <<"A", " ", "R", " ", "B">>,
   <<"A", " ", " ", "B">>, <<"A", " ", "B">>}
ArtistNames == {<<"X">>, <<" ", "X">>, <<"Y">>}

RECURSIVE LStrip(_)
LStrip(name) ==
  IF name # << >> /\ Head(name) = " " THEN LStrip(Tail(name)) ELSE name

RECURSIVE RStrip(_)
RStrip(name) ==
  IF name # << >> /\ name[Len(name)] = " "
  THEN RStrip(SubSeq(name, 1, Len(name) - 1))
  ELSE name

\* str.strip()
Strip(name) == LStrip(RStrip(name))

\* re.sub(r'\s+', ' ', name): every run of whitespace becomes one blank
RECURSIVE Collapse(_)
Collapse(name) ==
  IF name = << >> THEN << >>
  ELSE IF Len(name) >= 2 /\ name[1] = " " /\ name[2] = " "
  THEN Collapse(Tail(name))
  ELSE <<Head(name)>> \o Collapse(Tail(name))

\* lines 33-35, 41-42: every group of featured artists goes, with the
\* whitespace before it
RECURSIVE RemoveFeat(_)
RemoveFeat(name) ==
  IF name = << >> THEN << >>
  ELSE LET body == RemoveFeat(SubSeq(name, 1, Len(name) - 1))
           last == name[Len(name)]
       IN IF last = "F" THEN RStrip(body) ELSE Append(body, last)

\* lines 36-37, 41-42: from the first mark of a remaster everything goes,
\* with the whitespace before it
RECURSIVE RemoveRemaster(_)
RemoveRemaster(name) ==
  IF \E i \in DOMAIN name : name[i] = "R"
  THEN RemoveRemaster(SubSeq(name, 1, Len(name) - 1))
  ELSE RStrip(name)

\* lines 24-44
clean_track_name(track_name) ==
  IF track_name = << >> THEN <<"Unknown Track">>
  ELSE Strip(RemoveRemaster(RemoveFeat(Collapse(Strip(track_name)))))

\* lines 46-53
clean_artist_name(artist_name) ==
  IF artist_name = << >> THEN <<"Unknown Artist">>
  ELSE Collapse(Strip(artist_name))

\* The rows of the DataFrames given to deduplicate_tracks.
TrackRows == [track_name : TrackNames, artist : ArtistNames, popularity : Popularities]

\* lines 120-121: the two columns added
WithCleanColumns(rows) ==
  [i \in DOMAIN rows |->
     [track_name |-> rows[i].track_name, artist |-> rows[i].artist,
      popularity |-> rows[i].popularity,
      clean_track_name |-> clean_track_name(rows[i].track_name),
      clean_artist_name |-> clean_artist_name(rows[i].artist)]]

\* lines 125-128: drop_duplicates(subset=['clean_track_name',
\* 'clean_artist_name'], keep='first')
RECURSIVE drop_duplicates_clean(_)
drop_duplicates_clean(rows) ==
  IF rows = << >> THEN << >>
  ELSE LET body == drop_duplicates_clean(SubSeq(rows, 1, Len(rows) - 1))
           last == rows[Len(rows)]
       IN IF \E i \in DOMAIN body :
               /\ body[i].clean_track_name = last.clean_track_name
               /\ body[i].clean_artist_name = last.clean_artist_name
          THEN body
          ELSE Append(body, last)

\* line 131: the two columns dropped
WithoutCleanColumns(rows) ==
  [i \in DOMAIN rows |->
     [track_name |-> rows[i].track_name, artist |-> rows[i].artist,
      popularity |-> rows[i].popularity]]

InitDedup ==
  /\ CACHE = NoEntry
  /\ lock = NoThread
  /\ now = 0
  /\ th = [t \in Threads |-> ThreadInit("idle")]
  /\ req = [r \in Requests |-> ReqInit]
  /\ running = 0
  /\ search = NoSearch
  /\ retry = NoRetry
  /\ featured = NoFeatured
  /\ playlist = NoPlaylist
  /\ uncached = NoUncached
  /\ \E df \in UNION {[1..n -> TrackRows] : n \in 0..MaxDedupRows} :
       dedup = [NoDedup EXCEPT !.pc = "l113", !.tracks_df = df]

\* The duplicates are dropped from the rows in the order given.
deduplicate_tracks_unsorted ==
  /\ dedup.pc = "l113"
  /\ dedup' = [dedup EXCEPT
       !.pc = "returned",
       !.deduplicated =
          WithoutCleanColumns(drop_duplicates_clean(WithCleanColumns(dedup.tracks_df)))]
  /\ UNCHANGED <<api, search, retry, featured, playlist, uncached>>

\* lines 113-134, with popularity as the priority column
deduplicate_tracks ==
  /\ dedup.pc = "l113"
  /\ IF dedup.tracks_df = << >>
     THEN dedup' = [dedup EXCEPT !.pc = "returned", !.deduplicated = dedup.tracks_df]
     ELSE \E sorted_df \in sort_values(WithCleanColumns(dedup.tracks_df)) :
            dedup' = [dedup EXCEPT
              !.pc = "returned",
              !.deduplicated = WithoutCleanColumns(drop_duplicates_clean(sorted_df))]
  /\ UNCHANGED <<api, search, retry, featured, playlist, uncached>>

SpecDedup == InitDedup /\ [][deduplicate_tracks]_vars

\* ============================================================ properties

\* A call of background_data_refresh between its setting of the flag
\* (line 48) and its clearing of it (line 80): a refresh in flight.
InFlight(t) == th[t].pc \in {"l51", "l60", "l69", "l71", "l72", "l79"}

\* C1: whatever the triggers (startup, /trending, /analytics, /refresh) and
\* however their threads interleave, at most one refresh is in flight.
C1_SingleFlight == Cardinality({t \in Threads : InFlight(t)}) <= 1

\* A refresh is in flight while another call waits at the lock.
C1_Witness ==
  \E t, u \in Threads : t # u /\ InFlight(t) /\ th[u].pc = "l45"

\* C2: is_updating is true exactly while one call is between its
\* check-and-set and its final clear: the flag is set if and only if some call
\* is in flight, that call is the only one, and so the flag is never cleared
\* under a call in flight nor held for two calls.
C2_FlagIffInFlight ==
  /\ CACHE.is_updating <=> (\E t \in Threads : InFlight(t))
  /\ \A t, u \in Threads : (InFlight(t) /\ InFlight(u)) => t = u

\* A refresh is about to clear the flag it set, after another call returned
\* at line 47.
C2_Witness ==
  \E t, u \in Threads :
    /\ th[t].pc = "l79" /\ CACHE.is_updating
    /\ th[u].pc = "done" /\ th[u].outcome = "noop"

\* C3: a refresh that failed (an exception out of the fetch or out of the
\* analytics) returns with music_data, analytics and last_updated as it found
\* them and with is_updating false.
C3_FailedKeepsCache ==
  [][\A t \in Threads :
       (th[t].pc = "l79" /\ th[t].outcome = "raised" /\ th'[t].pc = "done")
         => (Entry(CACHE') = th[t].before /\ ~CACHE'.is_updating)]_vars

\* A refresh has failed on a populated cache.
C3_Witness ==
  \E t \in Threads :
    /\ th[t].pc = "l79" /\ th[t].outcome = "raised"
    /\ ~IsNone(CACHE.music_data) /\ ~IsNone(CACHE.last_updated)

\* The rows were fetched no later than the time stamp says: a time stamp that
\* is absent or older than the rows is not of the refresh that fetched them.
StampOfRows(rows, stamp) ==
  /\ ~IsNone(stamp)
  /\ \A i \in DOMAIN rows : rows[i].fetched_at <= Val(stamp)

C6_LastUpdatedIncreases ==
  [][\A t \in Threads :
       (th[t].pc = "l72" /\ th'[t].pc = "l79")
         => /\ ~IsNone(CACHE'.last_updated)
            /\ ~IsNone(th[t].before[3])
                 => Val(CACHE'.last_updated) > Val(th[t].before[3])]_vars

\* A refresh has succeeded on a cache an earlier refresh had populated.
C6_Witness ==
  \E t \in Threads :
    /\ th[t].pc = "l79" /\ th[t].outcome = "updated"
    /\ ~IsNone(th[t].before[3])
    /\ Val(CACHE.last_updated) > Val(th[t].before[3])

\* C7: a trigger that finds is_updating true does nothing: the handlers'
\* trigger starts no thread, a call of background_data_refresh returns without
\* fetching, and neither changes any field of the cache, the flag included.
C7_TriggerWhileUpdatingIsNoop ==
  [][/\ \A t \in Threads :
          (th[t].pc = "l45" /\ th'[t].pc # "l45" /\ CACHE.is_updating)
            => (th'[t].pc = "done" /\ CACHE' = CACHE)
     /\ \A r \in Requests :
          (running = r /\ req[r].pc \in {"t110", "a157"} /\ req'[r].pc # req[r].pc
             /\ CACHE.is_updating)
            => (th' = th /\ CACHE' = CACHE)]_vars

\* A call has returned at line 47 and the refresh in flight goes on, its
\* flag still set.
C7_Witness ==
  \E t, u \in Threads :
    /\ th[u].pc = "done" /\ th[u].outcome = "noop"
    /\ th[t].pc \in {"l51", "l60"} /\ CACHE.is_updating

\* The age of the entry is below the timeout.
Younger(c, t) ==
  \E lu \in 0..MaxTime : c.last_updated = <<lu>> /\ t < lu + CACHE_TIMEOUT

\* C8: is_cache_valid is true exactly when last_updated is set and the entry
\* is younger than CACHE_TIMEOUT: false for a cache never populated, false at
\* an age of exactly the timeout.
C8_CacheValidIff ==
  /\ is_cache_valid(CACHE, now) <=> Younger(CACHE, now)
  /\ IsNone(CACHE.last_updated) => ~is_cache_valid(CACHE, now)
  /\ CACHE.last_updated = <<now - CACHE_TIMEOUT>> => ~is_cache_valid(CACHE, now)

\* /analytics found the cache invalid at an age of exactly the timeout.
C8_Witness ==
  \E r \in Requests :
    /\ At(r, "analytics", "a157")
    /\ CACHE.last_updated = <<now - CACHE_TIMEOUT>>

Started == {t \in Workers : th[t].pc = "idle" /\ th'[t].pc = "l45"}

\* C10: /trending goes to the trigger exactly when the cache is invalid or
\* force_refresh is set, /analytics exactly when the cache is invalid; the
\* trigger starts exactly one call of background_data_refresh when is_updating
\* is false and none when it is true; no other step of the two handlers
\* starts any.
C10_TriggerWhenInvalid ==
  [][\A r \in Requests :
       LET stepped == running = r /\ req'[r].pc # req[r].pc
       IN /\ (req[r].pc = "t109" /\ stepped)
               => (req'[r].pc = "t110" <=> (~Younger(CACHE, now) \/ req[r].force_refresh))
          /\ (req[r].pc = "a156" /\ stepped)
               => (req'[r].pc = "a157" <=> ~Younger(CACHE, now))
          /\ (req[r].pc \in {"t110", "a157"} /\ stepped)
               => Cardinality(Started) = IF CACHE.is_updating THEN 0 ELSE 1
          /\ (req[r].kind \in {"trending", "analytics"}
                /\ req[r].pc \notin {"t110", "a157"} /\ stepped)
               => Started = {}]_vars

\* A /trending read without force_refresh, 301 s after the last refresh, has
\* started a call of background_data_refresh.
C10_Witness ==
  \E r \in Requests, t \in Workers :
    /\ At(r, "trending", "t115") /\ ~req[r].force_refresh
    /\ CACHE.last_updated = <<now - 301>>
    /\ th[t].pc = "l45"
    /\ \A u \in Threads : ~InFlight(u)

\* Request r is in the wait loop of lines 117-120.
InLoop(r) == req[r].kind = "trending" /\ req[r].pc \in {"t117", "t120"}

\* C11: a /trending read of a never-populated cache sleeps 200 ms at most 50
\* times (10 s); while it sleeps it does not hold the event loop, and the
\* requests of other clients are answered; it sleeps only on an empty dataset;
\* it answers 503 exactly when music_data is empty at line 122, which after a
\* wait is at the ceiling; and the wait ends, whatever the refresh threads do.
C11_BoundedWait ==
  /\ [](\A r \in Clients :
          /\ req[r].polls <= WAIT_POLLS
          /\ req[r].polls * POLL_SLEEP_MS <= 10000
          /\ req[r].pc = "t120" => running # r
          /\ (req[r].kind = "trending" /\ req[r].pc = "sent" /\ req[r].resp.code = 503)
               => (req[r].polls = WAIT_POLLS /\ IsNone(req[r].music_data)))
  /\ [][\A r \in Clients :
          /\ (req[r].pc = "t117" /\ req'[r].pc = "t120")
               => (IsNone(CACHE.music_data) /\ req'[r].polls = req[r].polls + 1)
          /\ (req[r].pc = "t122" /\ req'[r].pc # "t122")
               => (req'[r].resp.code = 503 <=> IsNone(CACHE.music_data))]_vars
  /\ \A r \in Clients : InLoop(r) ~> ~InLoop(r)
  /\ \A q \in Clients :
       (req[q].kind \in {"analytics", "refresh", "root", "status"})
         ~> (req[q].pc = "sent")

\* The reader is asleep in the wait loop, the cache still empty, and the
\* request of another client has been answered meanwhile.
C11_Witness ==
  \E r, q \in Clients :
    /\ r # q
    /\ req[r].pc = "t120" /\ req[r].polls = WAIT_POLLS /\ IsNone(CACHE.music_data)
    /\ req[q].pc = "sent" /\ req[q].resp.code = 200

RowsOf(rows, k) == {i \in DOMAIN rows : rows[i].track_id = k}

\* C13: the DataFrame returned has exactly one row for every track_id of the
\* rows fetched, and the popularity of that row is the highest popularity
\* among the rows fetched with that track_id, in whatever order they came
\* (in a call that ends without a critical error).
C13_DedupKeepsHighest ==
  (search.pc = "returned" /\ ~search.critical) =>
    \A k \in TrackIds :
      RowsOf(search.trending_tracks, k) # {} =>
        /\ Cardinality(RowsOf(search.df, k)) = 1
        /\ \A i \in RowsOf(search.df, k), j \in RowsOf(search.trending_tracks, k) :
             search.trending_tracks[j].popularity <= search.df[i].popularity

\* C14: POST /refresh answers 200 with status "processing" and nothing of the
\* refresh in it, the answer being made before any refresh step of the request
\* and without giving the event loop away; after it the handler hands exactly
\* one call of background_data_refresh to a thread, whether or not a refresh
\* is running, and that call starts at the check of line 45; a call that finds
\* the flag set there returns without a fetch.
C14_RefreshFireAndForget ==
  [][/\ \A r \in Requests :
          (running = r /\ req[r].kind = "refresh" /\ req[r].pc # "sent"
             /\ req'[r] # req[r])
            => /\ running' = r /\ CACHE' = CACHE /\ lock' = lock
               /\ req[r].pc = "r168"
                    => /\ req'[r].resp = [NoResponse EXCEPT !.code = 200,
                                                            !.status = "processing"]
                       /\ th' = th
               /\ req[r].pc = "r_task"
                    => /\ req'[r].pc = "sent" /\ req'[r].resp = req[r].resp
                       /\ Cardinality(Started) = 1
                       /\ \A t \in Threads : th'[t] # th[t] => t \in Started
     /\ \A t \in Threads :
          (th[t].pc = "l45" /\ th'[t].pc # "l45" /\ CACHE.is_updating)
            => th'[t] = Returned("noop")]_vars

\* POST /refresh has answered while a refresh is in flight: the call it handed
\* over is about to meet the single-flight check.
C14_Witness ==
  \E r \in Requests, t, u \in Workers :
    /\ req[r].kind = "refresh" /\ req[r].pc = "sent"
    /\ req[r].resp.status = "processing"
    /\ InFlight(t) /\ CACHE.is_updating /\ th[u].pc = "l45"

\* An item that is a well-formed record: it has an id and its extraction does
\* not raise.
WellFormed(item) == ~IsNone(item.id) /\ ~item.raises

\* C15: whatever items lack an id or raise during their extraction, and
\* whatever searches fail, every well-formed item of every search that did not
\* fail is among the rows fetched, as it was received, and its track has a row
\* in the DataFrame returned (in a call that ends without a critical error).
C15_MalformedSkippedAlone ==
  (search.pc = "returned" /\ ~search.critical) =>
    \A t \in DOMAIN search.results :
      ~search.results[t].failed =>
        \A i \in DOMAIN search.results[t].items :
          LET item == search.results[t].items[i]
          IN WellFormed(item) =>
               /\ \E j \in DOMAIN search.trending_tracks :
                    search.trending_tracks[j] =
                      [track_id |-> Val(item.id), popularity |-> item.popularity,
                       term |-> t]
               /\ \E j \in DOMAIN search.df : search.df[j].track_id = Val(item.id)

\* A call has returned after a search that failed and a search whose first
\* item was malformed and whose second item was well formed.
C15_Witness ==
  /\ search.pc = "returned"
  /\ \E t, u \in DOMAIN search.results :
       /\ search.results[t].failed
       /\ ~search.results[u].failed /\ Len(search.results[u].items) = 2
       /\ search.results[u].items[1].raises
       /\ WellFormed(search.results[u].items[2])
       /\ \E j \in DOMAIN search.df :
            search.df[j].track_id = Val(search.results[u].items[2].id)

\* The steps of the completion of a refresh: the writes of lines 70-72.
Completing(t) == th[t].pc \in {"l69", "l71", "l72"} /\ th'[t].pc # th[t].pc

\* C16: the cache starts with music_data, analytics and last_updated absent
\* and is_updating false; a step that changes any of the three is a write of
\* lines 70-72 by the refresh in flight, and no step of a handler (/,
\* /trending, /analytics, /refresh, /cache-status, their triggers included)
\* changes the cache at all; when the completion is over the three fields are
\* the dataset, the analytics and the time of that refresh, nothing of the
\* former entry being kept.
C16_OnlyCompletionWrites ==
  /\ CACHE = [music_data |-> None, analytics |-> None, last_updated |-> None,
              is_updating |-> FALSE]
  /\ [][/\ Entry(CACHE') # Entry(CACHE)
             => (req' = req /\ \E t \in Threads : InFlight(t) /\ Completing(t))
        /\ req' # req => CACHE' = CACHE
        /\ \A t \in Threads :
             (th[t].pc = "l72" /\ th'[t].pc = "l79")
               => Entry(CACHE') = <<th[t].music_data, th[t].analytics, Some(now)>>]_vars

\* GET / or GET /cache-status has answered on a cache whose entry a refresh
\* has just replaced, an earlier entry being there before.
C16_Witness ==
  \E r \in Requests, t \in Threads :
    /\ req[r].kind \in {"root", "status"} /\ req[r].pc = "sent"
    /\ th[t].pc = "l79" /\ th[t].outcome = "updated"
    /\ ~IsNone(th[t].before[1])
    /\ Entry(CACHE) # th[t].before
    /\ CACHE.music_data = th[t].music_data

\* C18: GET /cache-status answers with the state of the cache as each field
\* is read: cache_valid is true exactly when the entry is younger than the
\* timeout, last_updated is the time of the last successful refresh or
\* absent, is_updating is the flag, data_count is the number of rows of the
\* dataset or 0 without one, and cache_timeout_seconds is 300.
C18_StatusReportsCache ==
  [][\A r \in Requests :
       (running = r /\ req[r].kind = "status" /\ req'[r].pc # req[r].pc)
         => /\ req[r].pc = "s178" => (req'[r].resp.cache_valid <=> Younger(CACHE, now))
            /\ req[r].pc = "s179" => req'[r].resp.last_updated = CACHE.last_updated
            /\ req[r].pc = "s180" => (req'[r].resp.is_updating <=> CACHE.is_updating)
            /\ req[r].pc = "s181" => (req'[r].resp.has_data <=> CACHE.music_data # None)
            /\ req[r].pc = "s182"
                 => /\ req'[r].resp.code = 200
                    /\ req'[r].resp.cache_timeout_seconds = 300
                    /\ req'[r].resp.data_count =
                         IF CACHE.music_data = None THEN 0
                         ELSE Cardinality(DOMAIN CACHE.music_data[1])
                    /\ \A f \in {"cache_valid", "last_updated", "is_updating", "has_data"} :
                         req'[r].resp[f] = req[r].resp[f]
            /\ CACHE' = CACHE]_vars

\* GET /cache-status has answered on a populated cache that is no longer
\* valid, while a refresh is in flight.
C18_Witness ==
  \E r \in Requests :
    /\ req[r].kind = "status" /\ req[r].pc = "sent"
    /\ req[r].resp.data_count = 2 /\ req[r].resp.has_data
    /\ ~req[r].resp.cache_valid /\ req[r].resp.is_updating
    /\ ~IsNone(req[r].resp.last_updated)
    /\ req[r].resp.cache_timeout_seconds = CACHE_TIMEOUT

\* C17: as long as the call that set the flag stays in its fetch, every step
\* of the process leaves the whole cache as it is, is_updating true; the
\* triggers of /trending and /analytics start no thread, the call that
\* /refresh hands over returns at line 47, and no other call gets past the
\* check.  Nothing in the process ends the fetch: the steps that leave it are
\* the fetch's own.
C17_StuckRefreshWedges ==
  [][\A t \in Threads :
       (th[t].pc = "l51" /\ th'[t].pc = "l51")
         => /\ CACHE.is_updating /\ CACHE' = CACHE
            /\ \A u \in Threads : u # t => ~InFlight(u) /\ th'[u].pc \notin {"l48", "l51"}
            /\ \A u \in Threads :
                 (th[u].pc = "l45" /\ th'[u].pc # "l45") => th'[u] = Returned("noop")
            /\ \A r \in Requests :
                 (running = r /\ req[r].pc \in {"t110", "a157"} /\ req'[r].pc # req[r].pc)
                   => th' = th]_vars

\* With a call in its fetch, the call handed over by POST /refresh has
\* returned at line 47 and the trigger of a forced /trending read has started
\* nothing.
C17_Witness ==
  \E t, u \in Threads, r \in Requests :
    /\ th[t].pc = "l51" /\ CACHE.is_updating
    /\ th[u].pc = "done" /\ th[u].outcome = "noop"
    /\ At(r, "trending", "t115") /\ req[r].force_refresh
    /\ \A v \in Threads : th[v].pc # "l45"

\* The invocations of a call that gave a value.
Succeeded == {i \in DOMAIN retry.calls : retry.calls[i].kind = "ok"}

\* C19: a call of _make_request_with_retry invokes func at most max_retries
\* times and ends, returning or raising; what it returns is the value of its
\* last invocation, which is the first and only one that gave a value; when
\* no invocation gave a value it raises.
C19_RetryTerminates ==
  /\ [](/\ Len(retry.calls) <= max_retries
        /\ Len(retry.calls) <= 3
        /\ retry.pc = "returned"
             => /\ Succeeded = {Len(retry.calls)}
                /\ retry.result = Some(retry.calls[Len(retry.calls)].value)
        /\ retry.pc = "raised" => (Succeeded = {} /\ IsNone(retry.result))
        /\ retry.pc \in {"l159", "l165"} => Succeeded = {})
  /\ <>(retry.pc \in {"returned", "raised"})

\* A call has returned the value of its third invocation, the first two
\* having failed.
C19_Witness ==
  /\ retry.pc = "returned" /\ Len(retry.calls) = max_retries
  /\ retry.result = Some("y")
  /\ retry.calls[1].kind = "Exception" /\ retry.calls[2].kind = "401"

\* Every invocation of the call so far was rate limited.
AllRateLimited == \A i \in DOMAIN retry.calls : retry.calls[i].kind = "429"

\* C20: after a 429 the call sleeps Retry-After + 1 seconds (2 seconds
\* without the header), the attempt is used up, and func is invoked again
\* unless that was the last attempt; a call whose invocations were all
\* rate limited raises "Failed after 3 attempts", after exactly max_retries
\* invocations.
C20_RateLimitConsumesAttempts ==
  /\ [][(retry.pc = "l165" /\ retry.calls[Len(retry.calls)].kind = "429")
          => /\ retry'.slept_ms - retry.slept_ms
                  = 1000 * (1 + (IF retry.calls[Len(retry.calls)].retry_after = None
                                 THEN 1
                                 ELSE retry.calls[Len(retry.calls)].retry_after[1]))
             /\ retry'.attempt = retry.attempt + 1
             /\ retry'.attempt = Len(retry.calls)
             /\ retry'.pc = "l159"]_vars
  /\ []((AllRateLimited /\ retry.pc = "l159" /\ Len(retry.calls) < 3)
          => retry.attempt < max_retries)
  /\ []((AllRateLimited /\ retry.calls # << >> /\ retry.pc \in {"returned", "raised"})
          => /\ retry.pc = "raised"
             /\ retry.error = "Failed after 3 attempts"
             /\ Len(retry.calls) = 3)
  /\ AllRateLimited ~> (retry.pc \in {"returned", "raised"})

\* A call has raised after three rate-limited invocations and their waits.
C20_Witness ==
  /\ retry.pc = "raised" /\ retry.error = "Failed after 3 attempts"
  /\ Len(retry.calls) = 3 /\ AllRateLimited
  /\ retry.calls[1].retry_after = Some(2)
  /\ retry.slept_ms >= 3 * rate_limit_buffer_ms + 3000

\* The last invocation of the call was answered 401.
LastUnauthorized ==
  retry.calls # << >> /\ retry.calls[Len(retry.calls)].kind = "401"

\* C21: after a 401 the connector authenticates again.  When that succeeds
\* authenticated is true, no time is slept, the attempt is used up and, with
\* attempts left, func is invoked once more; when it fails the 401 is raised
\* at once, func is not invoked again and authenticated is false.
C21_UnauthorizedReauthenticates ==
  /\ [][(retry.pc = "l165" /\ LastUnauthorized)
          => /\ retry'.calls = retry.calls /\ retry'.slept_ms = retry.slept_ms
             /\ \/ /\ retry'.authenticated /\ retry'.pc = "l159"
                   /\ retry'.attempt = retry.attempt + 1
                \/ /\ ~retry'.authenticated /\ retry'.pc = "raised"
                   /\ retry'.error = "401"]_vars
  /\ []((retry.pc = "raised" /\ retry.error = "401")
          => (LastUnauthorized /\ ~retry.authenticated))
  /\ []((retry.pc \in {"l159", "returned"} /\ retry.calls # << >>)
          => \A i \in DOMAIN retry.calls :
               retry.calls[i].kind = "401" => retry.authenticated)
  /\ \A n \in 1..2 :
       (retry.pc = "l159" /\ LastUnauthorized /\ Len(retry.calls) = n
          /\ retry.attempt < 3)
         ~> (Len(retry.calls) = n + 1)

\* A call has returned a value after a 401 and a successful
\* re-authentication.
C21_Witness ==
  /\ retry.pc = "returned" /\ Len(retry.calls) = 2
  /\ retry.calls[1].kind = "401" /\ retry.authenticated
  /\ retry.result = Some("x")

\* C22: a call of get_featured_playlists for a key that has a stored result
\* returns that result without a request when the entry is younger than
\* cache_duration, and makes a request and replaces the entry when it is not.
C22_StoredResultServed ==
  [][\A l \in FeaturedLimits, c \in Countries :
       LET key == cache_key(l, c)
           entry == featured.cache[key]
       IN (get_featured_playlists(l, c) /\ ~IsNone(entry))
            => IF featured.clock - Val(entry).timestamp < cache_duration
               THEN /\ ~featured'.call.requested
                    /\ featured'.call.returned = Val(entry).data
               ELSE /\ featured'.call.requested
                    /\ Val(featured'.cache[key]).timestamp >= featured.clock
                    /\ Val(featured'.cache[key]).data = featured'.call.returned]_vars

\* The number of items the playlist holds at the offset of a request, up to
\* the number asked for.
Got(rq) == Len(Page(playlist, rq.limit, rq.offset))

\* The number of items fetched by all the requests.
Fetched ==
  IF playlist.requests = << >> THEN 0
  ELSE LET rq == playlist.requests[Len(playlist.requests)]
       IN rq.offset + Got(rq)

\* An item of the playlist that the call cannot read at all is among the
\* items fetched.
MalformedFetched ==
  \E i \in 1..Fetched : KindAt(playlist, i) = "malformed"

\* C23: a call of get_playlist_tracks returns, and returns at most limit
\* tracks.  Its requests ask for 1 to 50 items, the first at offset 0 and each
\* next one where the one before ended; a request is made only while fewer
\* than limit tracks are collected and only after a full batch, and the call
\* does not stop before that.  The tracks returned are whole tracks, in the
\* order of the playlist: all those fetched, up to limit, when no request
\* failed, and none when a request failed.
C23_PlaylistTracksBounded ==
  /\ <>(playlist.pc = "returned")
  /\ [](\A i \in DOMAIN playlist.requests :
          LET rq == playlist.requests[i]
          IN /\ rq.limit >= 1 /\ rq.limit <= BATCH
             /\ rq.had < playlist.limit
             /\ rq.offset = IF i = 1 THEN 0
                            ELSE playlist.requests[i - 1].offset
                                   + playlist.requests[i - 1].limit
             /\ i > 1 => Got(playlist.requests[i - 1]) = playlist.requests[i - 1].limit)
  /\ [](playlist.pc = "returned" =>
          LET out == Val(playlist.returned)
          IN /\ Len(out) <= Max0(playlist.limit)
             /\ \A i \in DOMAIN out : KindAt(playlist, out[i]) = "ok"
             /\ playlist.failed => out = << >>
             /\ (playlist.authenticated /\ ~playlist.failed /\ ~MalformedFetched)
                  => /\ out = SliceTo(Extracted(playlist, Places(1, Fetched)),
                                      playlist.limit)
                     /\ \/ playlist.limit <= 0 /\ playlist.requests = << >>
                        \/ Len(Extracted(playlist, Places(1, Fetched))) >= playlist.limit
                        \/ /\ playlist.requests # << >>
                           /\ LET rq == playlist.requests[Len(playlist.requests)]
                              IN Got(rq) < rq.limit)

\* A call has returned 50 tracks of a playlist of 51 items whose first item
\* has no track id: it made a request for 50 items and one for 1 item.
C23_Witness ==
  /\ playlist.pc = "returned" /\ ~playlist.failed
  /\ playlist.len = 51 /\ playlist.limit = 50
  /\ playlist.bad = {1} /\ playlist.kind = "no_id"
  /\ Len(playlist.requests) = 2
  /\ playlist.requests[2].limit = 1 /\ playlist.requests[2].offset = 50
  /\ Len(Val(playlist.returned)) = 50

\* C24: in the uncached API a request with a client and an empty dataset is
\* answered 404, with "No trending data found" on /trending and "No data
\* available for analytics" on /analytics, and a request without a client is
\* answered 500 "Spotify API connection failed".
C24_UncachedErrors ==
  uncached.pc = "sent" =>
    /\ (uncached.sp /\ uncached.music_data = << >>)
         => /\ uncached.response.status_code = 404
            /\ uncached.response.detail =
                 IF uncached.path = "/trending" THEN "No trending data found"
                 ELSE "No data available for analytics"
    /\ ~uncached.sp
         => /\ uncached.response.status_code = 500
            /\ uncached.response.detail = "Spotify API connection failed"

\* No search of the call gives a row.
NoTrackYielded ==
  \A t \in DOMAIN search.results :
    search.results[t].failed \/ ExtractRows(search.results[t].items, t) = << >>

\* C25: the DataFrame get_trending_music_via_search returns has no two rows
\* of one track_id, and its rows come in an order of falling popularity.  It
\* is empty when no search gave a row and when a critical error occurred;
\* otherwise it has a row for every track_id fetched.
C25_UniqueAndOrdered ==
  search.pc = "returned" =>
    /\ \A i, j \in DOMAIN search.df :
         i # j => search.df[i].track_id # search.df[j].track_id
    /\ \A i, j \in DOMAIN search.df :
         i < j => search.df[i].popularity >= search.df[j].popularity
    /\ (NoTrackYielded \/ search.critical) => search.df = << >>
    /\ ~search.critical =>
         {search.df[i].track_id : i \in DOMAIN search.df}
           = {search.trending_tracks[i].track_id : i \in DOMAIN search.trending_tracks}

\* A call has returned two rows, the more popular first, of three rows fetched
\* with the less popular first and one track_id twice.
C25_Witness ==
  /\ search.pc = "returned" /\ ~search.critical
  /\ Len(search.trending_tracks) = 3
  /\ search.trending_tracks[1].popularity = 10
  /\ search.trending_tracks[1].track_id = search.trending_tracks[2].track_id
  /\ Len(search.df) = 2
  /\ search.df[1].popularity = 90 /\ search.df[2].popularity = 10

\* The cleaned track name and cleaned artist name of a row.
CleanPair(row) == <<clean_track_name(row.track_name), clean_artist_name(row.artist)>>

\* C26: the rows deduplicate_tracks returns are rows of its input; for every
\* pair of cleaned track name and cleaned artist name that a row of the input
\* has, exactly one row returned has that pair, and its popularity is the
\* highest popularity of the rows of the input with that pair.  An empty input
\* is returned as it is.
C26_DedupKeepsHighestPriority ==
  dedup.pc = "returned" =>
    LET in == dedup.tracks_df
        out == dedup.deduplicated
    IN /\ \A j \in DOMAIN out : \E i \in DOMAIN in : out[j] = in[i]
       /\ \A i \in DOMAIN in :
            /\ Cardinality({j \in DOMAIN out : CleanPair(out[j]) = CleanPair(in[i])}) = 1
            /\ \A j \in DOMAIN out :
                 CleanPair(out[j]) = CleanPair(in[i])
                   => out[j].popularity >= in[i].popularity
       /\ in = << >> => out = << >>

\* A call has returned one row, of popularity 90, for two rows whose names
\* differ as given and are the same when cleaned, the first of popularity 10.
C26_Witness ==
  /\ dedup.pc = "returned"
  /\ Len(dedup.tracks_df) = 2 /\ Len(dedup.deduplicated) = 1
  /\ dedup.tracks_df[1].track_name # dedup.tracks_df[2].track_name
  /\ dedup.tracks_df[1].artist # dedup.tracks_df[2].artist
  /\ dedup.tracks_df[1].popularity = 10
  /\ dedup.deduplicated[1].popularity = 90

\* The call of thread t has ended without data: the connector had no client
\* or the dataset fetched was empty, and what is left is the finally clause.
EndedWithoutData(t) == th[t].pc = "l79" /\ th[t].outcome = "nodata"

\* C27: a refresh that ends without data has left music_data, analytics and
\* last_updated as it found them, and its last step clears is_updating and
\* nothing else, so that the cache is as valid after it as the entry it found
\* is.  A read of /trending or /analytics that finds the cache invalid goes to
\* the trigger, and the trigger, finding is_updating false, starts a refresh.
C27_NoDataIsNoUpdate ==
  /\ [](\A t \in Threads :
          EndedWithoutData(t) => (Entry(CACHE) = th[t].before /\ CACHE.is_updating))
  /\ [][\A t \in Threads :
          (EndedWithoutData(t) /\ th'[t].pc = "done")
            => /\ Entry(CACHE') = th[t].before
               /\ ~CACHE'.is_updating
               /\ now' = now
               /\ is_cache_valid(CACHE', now') <=> is_cache_valid(CACHE, now)]_vars
  /\ [][\A r \in Requests :
          ((At(r, "trending", "t109") \/ At(r, "analytics", "a156"))
             /\ ~is_cache_valid(CACHE, now) /\ req'[r].pc # req[r].pc)
            => req'[r].pc \in {"t110", "a157"}]_vars
  /\ [][\A r \in Requests :
          ((At(r, "trending", "t110") \/ At(r, "analytics", "a157"))
             /\ ~CACHE.is_updating /\ req'[r].pc # req[r].pc)
            => \E t \in Workers : th[t].pc = "idle" /\ th'[t].pc = "l45"]_vars

\* A refresh of a cache whose entry has grown old has ended without data: the
\* old dataset is in the cache, the cache is not valid, the flag is still set.
C27_Witness ==
  \E t \in Threads :
    /\ EndedWithoutData(t)
    /\ ~IsNone(CACHE.music_data) /\ ~IsNone(CACHE.last_updated)
    /\ ~is_cache_valid(CACHE, now)
    /\ CACHE.is_updating
====
